---- MODULE Spec2Model ----
(***************************************************************************)
(* A model of the kanji wallpaper generator (generate_kanji_images.py)     *)
(* and of the harvester (playwright_jlptstudy.py).                         *)
(*                                                                         *)
(* Text is a sequence of characters.  A character is a short string that   *)
(* names it: "KA", "KU" are two letters of the katakana block, "HA", "HI"  *)
(* two letters of the hiragana block, "DOT" the middle dot U+30FB, "LONG"  *)
(* the prolonged-sound mark U+30FC (both lie in the katakana block         *)
(* U+30A0..U+30FF), "NL" a line break, " " a blank, "a", "b" any other     *)
(* letters, and the punctuation characters stand for themselves.           *)
(***************************************************************************)
EXTENDS Integers, Sequences, FiniteSets, TLC

(***************************************************************************)
(* Bounds of the model.                                                    *)
(***************************************************************************)
MaxTokLen == 2
MaxTokens == 2
MaxFragments == 2

(***************************************************************************)
(* Character classes of the regular expressions of parse_csv_entry.        *)
(***************************************************************************)
Whitespace == {" ", "NL"}
HiraganaBlock == {"HA", "HI"}
KatakanaBlock == {"KA", "KU", "DOT", "LONG"}
HiraganaClass == HiraganaBlock \cup Whitespace \cup {"DOT", ".", ",", "LONG"}
KatakanaClass == KatakanaBlock \cup Whitespace \cup {"DOT", ",", "LONG"}
HiraganaRun == HiraganaBlock \cup {"DOT", ".", ",", "LONG"}
KatakanaRun == KatakanaBlock \cup {"DOT", ",", "LONG"}

(***************************************************************************)
(* str.strip, str.split(sep), re.match of a whole-string character class,  *)
(* re.findall of the maximal runs of a class.                              *)
(***************************************************************************)
RECURSIVE LStrip(_)
LStrip(s) ==
    IF s = <<>> THEN <<>>
    ELSE IF Head(s) \in Whitespace THEN LStrip(Tail(s)) ELSE s

RECURSIVE RStrip(_)
RStrip(s) ==
    IF s = <<>> THEN <<>>
    ELSE IF s[Len(s)] \in Whitespace THEN RStrip(SubSeq(s, 1, Len(s) - 1)) ELSE s

Strip(s) == RStrip(LStrip(s))

RECURSIVE SplitAcc(_, _, _)
SplitAcc(s, sep, cur) ==
    IF s = <<>> THEN <<cur>>
    ELSE IF Head(s) = sep THEN <<cur>> \o SplitAcc(Tail(s), sep, <<>>)
    ELSE SplitAcc(Tail(s), sep, Append(cur, Head(s)))

Split(s, sep) == SplitAcc(s, sep, <<>>)

FullMatch(s, class) == s # <<>> /\ \A i \in 1..Len(s) : s[i] \in class

RECURSIVE FindAllAcc(_, _, _)
FindAllAcc(s, class, cur) ==
    IF s = <<>> THEN (IF cur = <<>> THEN <<>> ELSE <<cur>>)
    ELSE IF Head(s) \in class THEN FindAllAcc(Tail(s), class, Append(cur, Head(s)))
    ELSE (IF cur = <<>> THEN <<>> ELSE <<cur>>) \o FindAllAcc(Tail(s), class, <<>>)

FindAll(s, class) == FindAllAcc(s, class, <<>>)

RECURSIVE StripNonEmpty(_)
StripNonEmpty(parts) ==
    IF parts = <<>> THEN <<>>
    ELSE IF Strip(Head(parts)) # <<>>
         THEN <<Strip(Head(parts))>> \o StripNonEmpty(Tail(parts))
         ELSE StripNonEmpty(Tail(parts))

(***************************************************************************)
(* The readings of parse_csv_entry.                                        *)
(***************************************************************************)
RECURSIVE ReadingParts(_)
ReadingParts(parts) ==
    IF parts = <<>> THEN <<>>
    ELSE StripNonEmpty(Split(Head(parts), ",")) \o ReadingParts(Tail(parts))

RECURSIVE ClassifyReadings(_, _, _)
ClassifyReadings(readings, hira, kata) ==
    IF readings = <<>> THEN [hiragana_readings |-> hira, katakana_readings |-> kata]
    ELSE LET reading == Strip(Head(readings))
         IN  IF reading = <<>> THEN ClassifyReadings(Tail(readings), hira, kata)
             ELSE IF FullMatch(reading, HiraganaClass)
                  THEN ClassifyReadings(Tail(readings), Append(hira, reading), kata)
             ELSE IF FullMatch(reading, KatakanaClass)
                  THEN ClassifyReadings(Tail(readings), hira, Append(kata, reading))
             ELSE ClassifyReadings(Tail(readings),
                                   hira \o FindAll(reading, HiraganaRun),
                                   kata \o FindAll(reading, KatakanaRun))

ParseReadings(readings_str) ==
    IF readings_str = <<>>
    THEN [hiragana_readings |-> <<>>, katakana_readings |-> <<>>]
    ELSE ClassifyReadings(ReadingParts(Split(readings_str, ";")), <<>>, <<>>)

(***************************************************************************)
(* The compounds of parse_csv_entry.  The pattern                          *)
(*   ([^\s(]+)\s*\(([^)]+)\)\s*=\s*(.+)                                    *)
(* is matched at the start of the fragment.  Every repetition is followed  *)
(* by something its class excludes, so the greedy match is the only one.   *)
(***************************************************************************)
RECURSIVE RunLen(_, _)
RunLen(s, class) ==
    IF s = <<>> \/ Head(s) \notin class THEN 0 ELSE 1 + RunLen(Tail(s), class)

RECURSIVE RunLenNot(_, _)
RunLenNot(s, class) ==
    IF s = <<>> \/ Head(s) \in class THEN 0 ELSE 1 + RunLenNot(Tail(s), class)

Drop(s, n) == SubSeq(s, n + 1, Len(s))
Take(s, n) == SubSeq(s, 1, n)
SkipSpace(s) == Drop(s, RunLen(s, Whitespace))

NoMatch == [matched |-> FALSE, g1 |-> <<>>, g2 |-> <<>>, g3 |-> <<>>]

MatchCompound(s) ==
    LET n1 == RunLenNot(s, Whitespace \cup {"("})
        r1 == SkipSpace(Drop(s, n1))
    IN  IF n1 = 0 \/ r1 = <<>> \/ Head(r1) # "(" THEN NoMatch
        ELSE LET n2 == RunLenNot(Tail(r1), {")"})
                 r2 == Drop(Tail(r1), n2)
             IN  IF n2 = 0 \/ r2 = <<>> THEN NoMatch
                 ELSE LET r3 == SkipSpace(Tail(r2))
                      IN  IF r3 = <<>> \/ Head(r3) # "=" THEN NoMatch
                          ELSE LET r4 == SkipSpace(Tail(r3))
                                   n3 == RunLenNot(r4, {"NL"})
                               IN  IF n3 = 0 THEN NoMatch
                                   ELSE [matched |-> TRUE,
                                         g1 |-> Take(s, n1),
                                         g2 |-> Take(Tail(r1), n2),
                                         g3 |-> Take(r4, n3)]

\* A parser that defaults a fragment it cannot match instead of dropping it.
RECURSIVE CompoundsOfDefaulting(_)
CompoundsOfDefaulting(compound_parts) ==
    IF compound_parts = <<>> THEN <<>>
    ELSE LET match == MatchCompound(Strip(Head(compound_parts)))
         IN  <<[kanji |-> Strip(match.g1),
                reading |-> Strip(match.g2),
                meaning |-> Strip(match.g3)]>> \o CompoundsOfDefaulting(Tail(compound_parts))

RECURSIVE CompoundsOf(_)
CompoundsOf(compound_parts) ==
    IF compound_parts = <<>> THEN <<>>
    ELSE LET match == MatchCompound(Strip(Head(compound_parts)))
         IN  IF match.matched
             THEN <<[kanji |-> Strip(match.g1),
                     reading |-> Strip(match.g2),
                     meaning |-> Strip(match.g3)]>> \o CompoundsOf(Tail(compound_parts))
             ELSE CompoundsOf(Tail(compound_parts))

ParseCompounds(compounds_str) ==
    IF compounds_str = <<>> THEN <<>>
    ELSE CompoundsOf(StripNonEmpty(Split(compounds_str, ";")))

(***************************************************************************)
(* A column the CSV reader could not fill (a short row) is None, and       *)
(* None.strip() raises AttributeError.                                     *)
(***************************************************************************)
None == <<"<None>">>

ParseRaises(row) ==
    \/ row.kanji = None
    \/ row.meaning = None
    \/ row.readings = None
    \/ row.compounds = None

parse_csv_entry(row) ==
    LET readings == ParseReadings(Strip(row.readings))
    IN  [kanji |-> Strip(row.kanji),
         meaning |-> Strip(row.meaning),
         hiragana_readings |-> readings.hiragana_readings,
         katakana_readings |-> readings.katakana_readings,
         compounds |-> ParseCompounds(Strip(row.compounds))]

(***************************************************************************)
(* The body of the row loop of parse_kanji_csv_file: an exception of       *)
(* parse_csv_entry is caught and the row skipped; an entry is kept when    *)
(* its kanji is not empty.                                                 *)
(***************************************************************************)
\* A row loop that keeps every entry it could parse.
RowBodyKeepsAll(parsed_kanji_, row_) ==
    IF ParseRaises(row_) THEN parsed_kanji_
    ELSE Append(parsed_kanji_, parse_csv_entry(row_))

RowBody(parsed_kanji_, row_) ==
    IF ParseRaises(row_) THEN parsed_kanji_
    ELSE IF parse_csv_entry(row_).kanji # <<>>
         THEN Append(parsed_kanji_, parse_csv_entry(row_))
         ELSE parsed_kanji_

RECURSIVE RowLoop(_, _)
RowLoop(parsed_kanji_, reader) ==
    IF reader = <<>> THEN parsed_kanji_
    ELSE RowLoop(RowBody(parsed_kanji_, Head(reader)), Tail(reader))

parse_kanji_csv_file(reader) == RowLoop(<<>>, reader)

(***************************************************************************)
(* Inputs of the parser.                                                   *)
(***************************************************************************)
SeqsUpTo(S, n) == UNION {[1..k -> S] : k \in 1..n}

RECURSIVE Join(_, _)
Join(parts, sep) ==
    IF parts = <<>> THEN <<>>
    ELSE IF Len(parts) = 1 THEN Head(parts)
    ELSE Head(parts) \o sep \o Join(Tail(parts), sep)

\* Family-A tokens: a katakana letter and the whitelisted punctuation.  The
\* middle dot is in the same classes as the prolonged-sound mark, and the
\* second letter in the same classes as the first.
FamilyAChars == {"KA", ".", "LONG"}
FamilyATokens == SeqsUpTo(FamilyAChars, MaxTokLen)
FamilyALists == SeqsUpTo(FamilyATokens, MaxTokens)

\* Well-formed fragments, written tightly "a(r)=g" or spaced "a (r) = g".
FragmentWords == {<<"a">>, <<"b", ")">>}
FragmentReadings == {<<"HA">>, <<"HI", " ", "(">>}
FragmentGlosses == {<<"a">>, <<"(", "a", ")", " ", "=", "b">>}

FragmentText(word, reading, gloss, tight) ==
    IF tight
    THEN word \o <<"(">> \o reading \o <<")", "=">> \o gloss
    ELSE word \o <<" ", "(">> \o reading \o <<")", " ", "=", " ">> \o gloss

\* A field is written in one style throughout: tight ("a(HA)=b;...") or
\* loose ("a (HA) = b; ...").
WellFormedFragments(tight) ==
    {[ok |-> TRUE, word |-> w, reading |-> r, gloss |-> g,
      text |-> FragmentText(w, r, g, tight)] :
        w \in FragmentWords, r \in FragmentReadings, g \in FragmentGlosses}

MalformedFragments ==
    {[ok |-> FALSE, word |-> <<>>, reading |-> <<>>, gloss |-> <<>>, text |-> m] :
        m \in {<<"a">>,
               <<"a", " ", "b", " ", "(", "HA", ")", " ", "=", " ", "a">>,
               <<"(", "HA", ")", "=", "a">>,
               <<"a", "(", ")", "=", "a">>,
               <<"a", "(", "HA", ")", "a">>,
               <<"a", "(", "HA", ")", "=">>,
               <<"a", "(", "HA", "=", "a">>,
               <<" ">>}}

InsertAt(s, i, e) == SubSeq(s, 1, i - 1) \o <<e>> \o SubSeq(s, i, Len(s))

\* Lists of well-formed fragments of one style.
FragmentLists(tight) == SeqsUpTo(WellFormedFragments(tight), MaxFragments)

FragmentTexts(fragments) == [i \in 1..Len(fragments) |-> fragments[i].text]

SampleReadings == <<"KA", "KU", ";", " ", "HA", "HI">>
SampleCompounds == <<"a", " ", "(", "HA", ")", " ", "=", " ", "b">>
NoGiven == [tokens |-> <<>>, fragments |-> <<>>, mixed |-> <<>>]

ReadingRow(tokens) ==
    [given |-> [tokens |-> tokens, fragments |-> <<>>, mixed |-> <<>>],
     row |-> [kanji |-> <<"a">>, meaning |-> <<"b">>,
              readings |-> Join(tokens, <<";", " ">>), compounds |-> <<>>]]

Separator(tight) == IF tight THEN <<";">> ELSE <<";", " ">>

CompoundRow(fragments, tight) ==
    [given |-> [tokens |-> <<>>, fragments |-> fragments, mixed |-> <<>>],
     row |-> [kanji |-> <<"a">>, meaning |-> <<"b">>,
              readings |-> <<>>,
              compounds |-> Join(FragmentTexts(fragments), Separator(tight))]]

\* Rows as the CSV reader delivers them: a short row leaves its trailing
\* columns None.
DeliveredRows ==
    {r \in [kanji : {<<>>, <<" ">>, <<"a">>, <<" ", "a", " ">>},
            meaning : {<<>>, <<"b">>, None},
            readings : {<<>>, SampleReadings, <<"a", ",", ";">>, None},
            compounds : {<<>>, SampleCompounds, <<"a", " ", "b">>, None}] :
        /\ r.meaning = None => r.readings = None
        /\ r.readings = None => r.compounds = None}

FieldRow(r) == [given |-> NoGiven, row |-> r]

\* Tokens of more than one script: letters of both blocks, with the
\* punctuation of the readings and a letter of neither block among them.
MixedChars == {"HA", "KA", "LONG", ".", "a"}
MixedTokens ==
    {t \in SeqsUpTo(MixedChars, MaxTokLen + 1) :
        /\ \E k \in 1..Len(t) : t[k] = "HA"
        /\ \E k \in 1..Len(t) : t[k] = "KA"}

\* A row whose readings are one mixed token, alone or after a hiragana token.
MixedRow(token, after) ==
    [given |-> [tokens |-> <<>>, fragments |-> <<>>, mixed |-> token],
     row |-> [kanji |-> <<"a">>, meaning |-> <<"b">>,
              readings |-> IF after THEN <<"HI", ";", " ">> \o token ELSE token,
              compounds |-> <<>>]]

(***************************************************************************)
(* Names and paths of main.                                                *)
(***************************************************************************)
LowerCase == <<"a", "b", "c", "d", "e", "f", "g", "h", "i", "j", "k", "l", "m",
               "n", "o", "p", "q", "r", "s", "t", "u", "v", "w", "x", "y", "z">>
UpperCase == <<"A", "B", "C", "D", "E", "F", "G", "H", "I", "J", "K", "L", "M",
               "N", "O", "P", "Q", "R", "S", "T", "U", "V", "W", "X", "Y", "Z">>
DigitChars == <<"0", "1", "2", "3", "4", "5", "6", "7", "8", "9">>

UpperChar(c) ==
    IF \E k \in 1..26 : LowerCase[k] = c
    THEN UpperCase[CHOOSE k \in 1..26 : LowerCase[k] = c]
    ELSE c

Upper(s) == [k \in 1..Len(s) |-> UpperChar(s[k])]
Replace(s, old, new) == [k \in 1..Len(s) |-> IF s[k] = old THEN new ELSE s[k]]

Positions(s, c) == {k \in 1..Len(s) : s[k] = c}
Max(S) == CHOOSE x \in S : \A y \in S : y <= x
Min(S) == CHOOSE x \in S : \A y \in S : x <= y

\* os.path.basename
Basename(path) ==
    IF Positions(path, "/") = {} THEN path ELSE Drop(path, Max(Positions(path, "/")))

\* os.path.splitext(name)[0]: cut at the last dot that follows a character
\* other than a dot.
SplitExtRoot(name) ==
    LET dots == {k \in Positions(name, ".") : \E m \in 1..(k - 1) : name[m] # "."}
    IN  IF dots = {} THEN name ELSE Take(name, Max(dots) - 1)

\* A label that keeps the underscores after the first.
SuffixOfKeepingUnderscores(input_file) ==
    LET input_basename == SplitExtRoot(Basename(input_file))
    IN  IF Positions(input_basename, "_") # {}
        THEN Upper(Drop(input_basename, Min(Positions(input_basename, "_"))))
        ELSE Upper(input_basename)

SuffixOf(input_file) ==
    LET input_basename == SplitExtRoot(Basename(input_file))
    IN  IF Positions(input_basename, "_") # {}
        THEN Replace(Upper(Drop(input_basename, Min(Positions(input_basename, "_")))),
                     "_", "-")
        ELSE Upper(input_basename)

OutputDir(suffix_) == <<"J", "L", "P", "T", "-">> \o suffix_

\* "{:d}" and "{:05d}"
RECURSIVE Decimal(_)
Decimal(n) ==
    IF n < 10 THEN <<DigitChars[n + 1]>>
    ELSE Decimal(n \div 10) \o <<DigitChars[(n % 10) + 1]>>

RECURSIVE ZeroPad(_, _)
ZeroPad(digits, width) ==
    IF Len(digits) >= width THEN digits ELSE ZeroPad(<<"0">> \o digits, width)

Pad5(n) == ZeroPad(Decimal(n), 5)

Filename(suffix_, file_number) ==
    <<"J", "L", "P", "T", "_">> \o suffix_ \o <<"_">> \o Pad5(file_number)
        \o <<".", "p", "n", "g">>

PathJoin(dir, name) == dir \o <<"/">> \o name

(***************************************************************************)
(* Inputs of main: the command line and the files on disk.                 *)
(***************************************************************************)
MaxRows == 3

DefaultFile(n) ==
    <<"k", "a", "n", "j", "i", "_", "n", DigitChars[n + 1], ".", "c", "s", "v">>

DefaultFiles == <<DefaultFile(2), DefaultFile(3), DefaultFile(4), DefaultFile(5)>>
UserFile == <<"d", "/", "k", "_", "m", "y", "_", "x", ".", "c", "s", "v">>
\* A file name without an underscore, and one with capitals and two dots.
PlainFile == <<"d", ".", "e", "/", "a", "b", ".", "c", "s", "v">>
MixedFile == <<"K", "_", "a", "B", "_", ".", "x", ".", "c", "s", "v">>
UserFiles == {UserFile, PlainFile, MixedFile}

OptionLists ==
    {<<>>,
     <<"--screen">>,
     <<"--width=960">>,
     <<"--width", "960", "--height", "540">>,
     <<"--width", "960", "--height", "540", "--screen">>}

CommandLines == {[csv |-> c, opts |-> o] : c \in {<<>>} \cup UserFiles, o \in OptionLists}

\* len(sys.argv)
ArgvLen(cmd) == 1 + (IF cmd.csv = <<>> THEN 0 ELSE 1) + Len(cmd.opts)

HasOption(opts, name, joined, value) ==
    \/ \E k \in 1..Len(opts) : opts[k] = joined
    \/ \E k \in 1..(Len(opts) - 1) : opts[k] = name /\ opts[k + 1] = value

ArgWidth(opts) == IF HasOption(opts, "--width", "--width=960", "960") THEN 960 ELSE 1920
ArgHeight(opts) == IF HasOption(opts, "--height", "--height=540", "540") THEN 540 ELSE 1080
ArgScreen(opts) == \E k \in 1..Len(opts) : opts[k] = "--screen"

\* What _detect_screen_size can return where it succeeds.
DetectedSizes == {<<3840, 2160>>}

\* The rows of a file: the k-th row has a kanji of its own, every second row
\* a blank kanji, every fourth row is short.
Repeat(c, n) == [k \in 1..n |-> c]

RowAt(k) ==
    IF k % 4 = 0
    THEN [kanji |-> Repeat("a", k), meaning |-> <<"b">>, readings |-> None,
          compounds |-> None]
    ELSE IF k % 2 = 0
    THEN [kanji |-> <<" ">>, meaning |-> <<"b">>, readings |-> SampleReadings,
          compounds |-> SampleCompounds]
    ELSE [kanji |-> Repeat("a", k), meaning |-> <<"b">>, readings |-> SampleReadings,
          compounds |-> SampleCompounds]

RowsOfFile(first, n) == [k \in 1..n |-> RowAt(first + k - 1)]

FileSystems ==
    {[existing |-> e, rows |-> n] :
        e \in SUBSET {DefaultFile(2), DefaultFile(3), DefaultFile(4), DefaultFile(5)}
                 \cup {{f} : f \in UserFiles},
        n \in 0..MaxRows}

FileRows(fs, file) ==
    LET first == IF file = DefaultFile(3) THEN 2 ELSE IF file = DefaultFile(4) THEN 3
                 ELSE IF file = DefaultFile(5) THEN 4 ELSE 1
    IN  RowsOfFile(first, fs.rows)

(***************************************************************************)
(* State.                                                                  *)
(***************************************************************************)
VARIABLES
    given,          \* the token list or fragment list the row was written from
    row,            \* the row the CSV reader delivers
    pc,             \* position of the run
    kanji_data,     \* result of parse_csv_entry
    raised,         \* parse_csv_entry raised and the row loop caught it
    parsed_kanji,   \* the list parse_kanji_csv_file returns
    ret,            \* return value of create_kanji_image
    painted,        \* kanji painted on a canvas, in order
    output_files,   \* paths written by image.save
    cmd,            \* the command line of main
    fs,             \* the input files on disk
    image_size,     \* width and height handed to the generator
    input_files,    \* the list main walks
    fi,             \* index into input_files
    processed,      \* input files main went on to parse, in order
    kanji_list,     \* the batch of the current input file
    suffix,         \* label of the current input file
    dirs,           \* directories made by os.makedirs
    successful,     \* counters of the current batch
    failed,
    i,              \* enumerate index of the render loop
    calls,          \* calls of create_kanji_image in the current batch
    level,          \* args.level of the harvester
    kanji_boxes,    \* what the page holds behind each kanji box
    box,            \* number of kanji boxes processed
    results,        \* records scraped so far
    disk,           \* rows of each CSV file the harvester can name
    local,          \* the local variables of create_kanji_image
    wrapped_compound_lines,
    ri,             \* reading chips of the current family already drawn
    ci,             \* compounds already wrapped
    li,             \* wrapped lines already visited by the paint loop
    on_line,        \* reading chips drawn on the current line
    drawn           \* the draw commands issued by the last step

parseVars == <<given, row, kanji_data, raised, parsed_kanji>>
renderVars == <<ret, painted, output_files>>
mainVars == <<cmd, fs, image_size, input_files, fi, processed>>
batchVars == <<kanji_list, suffix, dirs, successful, failed, i, calls>>
harvestVars == <<level, kanji_boxes, box, results, disk>>
layoutVars == <<local, wrapped_compound_lines, ri, ci, li, on_line, drawn>>
vars == <<given, row, pc, kanji_data, raised, parsed_kanji, ret, painted, output_files,
          cmd, fs, image_size, input_files, fi, processed,
          kanji_list, suffix, dirs, successful, failed, i, calls,
          level, kanji_boxes, box, results, disk,
          local, wrapped_compound_lines, ri, ci, li, on_line, drawn>>

NoData == [kanji |-> <<>>, meaning |-> <<>>, hiragana_readings |-> <<>>,
           katakana_readings |-> <<>>, compounds |-> <<>>]

ParseIdle ==
    /\ given = NoGiven
    /\ row = [kanji |-> <<>>, meaning |-> <<>>, readings |-> <<>>, compounds |-> <<>>]
    /\ kanji_data = NoData
    /\ raised = FALSE
    /\ parsed_kanji = <<>>

RenderIdle ==
    /\ ret = FALSE
    /\ painted = <<>>
    /\ output_files = {}

MainIdle ==
    /\ cmd = [csv |-> <<>>, opts |-> <<>>]
    /\ fs = [existing |-> {}, rows |-> 0]
    /\ image_size = <<1920, 1080>>
    /\ input_files = <<>>
    /\ fi = 1
    /\ processed = <<>>

BatchIdle ==
    /\ kanji_list = <<>>
    /\ suffix = <<>>
    /\ dirs = {}
    /\ successful = 0
    /\ failed = 0
    /\ i = 0
    /\ calls = <<>>

HarvestIdle ==
    /\ level = 2
    /\ kanji_boxes = <<>>
    /\ box = 0
    /\ results = <<>>
    /\ disk = <<>>

NoLocal ==
    [x_margin |-> 0, y_margin |-> 0, vertical_spacing |-> 0, left_x |-> 0,
     kanji_y |-> 0, right_x |-> 0, right_y |-> 0, pill_padding_x |-> 0,
     pill_padding_y |-> 0, pill_gap |-> 0, max_reading_x |-> 0,
     reading_line_step |-> 0, current_x |-> 0, y |-> 0, box_padding |-> 0,
     line_spacing |-> 0, box_x0 |-> 0, box_y0 |-> 0, box_x1 |-> 0, box_y1 |-> 0,
     max_box_width |-> 0, kanji_width |-> 0, reading_width |-> 0,
     kanji_reading_width |-> 0, compound_y |-> 0]

LayoutIdle ==
    /\ local = NoLocal
    /\ wrapped_compound_lines = <<>>
    /\ ri = 0
    /\ ci = 0
    /\ li = 0
    /\ on_line = 0
    /\ drawn = <<>>

(***************************************************************************)
(* create_kanji_image, as its caller sees it: the guard on the kanji,      *)
(* then the canvas is painted and saved; the save may fail.                *)
(***************************************************************************)
CreateKanjiImage(kanji_data_, output_path) ==
    IF kanji_data_.kanji = <<>>
    THEN /\ ret' = FALSE
         /\ UNCHANGED <<painted, output_files>>
    ELSE /\ painted' = Append(painted, kanji_data_.kanji)
         /\ \/ /\ output_files' = output_files \cup {output_path}
               /\ ret' = TRUE
            \/ /\ UNCHANGED output_files
               /\ ret' = FALSE

DirectPath == <<"o", "u", "t", ".", "p", "n", "g">>

(***************************************************************************)
(* The parser on one row: the row loop of parse_kanji_csv_file on a file   *)
(* of one row, then create_kanji_image on what parse_csv_entry returned.   *)
(***************************************************************************)
\* The row the reader hands over, and what it was written from.
Given(inp) == given = inp.given /\ row = inp.row

InitParse ==
    /\ \/ \E l \in FamilyALists : Given(ReadingRow(l))
       \/ \E tight \in BOOLEAN : \E l \in FragmentLists(tight) :
              Given(CompoundRow(l, tight))
       \/ \E tight \in BOOLEAN : \E l \in FragmentLists(tight) \cup {<<>>} :
              \E k \in 1..(Len(l) + 1) : \E m \in MalformedFragments :
                  Given(CompoundRow(InsertAt(l, k, m), tight))
       \/ \E r \in DeliveredRows : Given(FieldRow(r))
       \/ \E t \in MixedTokens, after \in BOOLEAN : Given(MixedRow(t, after))
    /\ pc = "start"
    /\ kanji_data = NoData
    /\ raised = FALSE
    /\ parsed_kanji = <<>>
    /\ RenderIdle
    /\ MainIdle
    /\ BatchIdle
    /\ HarvestIdle
    /\ LayoutIdle

ParseRow ==
    /\ pc = "start"
    /\ ~ParseRaises(row)
    /\ kanji_data' = parse_csv_entry(row)
    /\ parsed_kanji' = RowBody(parsed_kanji, row)
    /\ pc' = "parsed"
    /\ UNCHANGED <<given, row, raised, renderVars, mainVars, batchVars, harvestVars, layoutVars>>

ParseRowRaises ==
    /\ pc = "start"
    /\ ParseRaises(row)
    /\ raised' = TRUE
    /\ parsed_kanji' = RowBody(parsed_kanji, row)
    /\ pc' = "parsed"
    /\ UNCHANGED <<given, row, kanji_data, renderVars, mainVars, batchVars, harvestVars, layoutVars>>

RenderEntry ==
    /\ pc = "parsed"
    /\ ~raised
    /\ CreateKanjiImage(kanji_data, DirectPath)
    /\ pc' = "rendered"
    /\ UNCHANGED <<parseVars, mainVars, batchVars, harvestVars, layoutVars>>

NextParse == ParseRow \/ ParseRowRaises \/ RenderEntry

SpecParse == InitParse /\ [][NextParse]_vars

(***************************************************************************)
(* main.                                                                   *)
(***************************************************************************)
InitMain ==
    /\ cmd \in CommandLines
    /\ fs \in FileSystems
    /\ fs.existing \subseteq
         (IF cmd.csv = <<>> THEN {DefaultFile(2), DefaultFile(3), DefaultFile(4), DefaultFile(5)} ELSE {cmd.csv})
    /\ pc = "main"
    /\ image_size = <<1920, 1080>>
    /\ input_files = <<>>
    /\ fi = 1
    /\ processed = <<>>
    /\ ParseIdle
    /\ RenderIdle
    /\ BatchIdle
    /\ HarvestIdle
    /\ LayoutIdle

\* Lines 628-652: the file list and the size of the canvas.
MainArgs ==
    /\ pc = "main"
    /\ input_files' = IF cmd.csv # <<>> THEN <<cmd.csv>> ELSE DefaultFiles
    /\ \/ /\ ArgScreen(cmd.opts)
          /\ image_size' \in DetectedSizes
       \/ image_size' = <<ArgWidth(cmd.opts), ArgHeight(cmd.opts)>>
    /\ fi' = 1
    /\ pc' = "file"
    /\ UNCHANGED <<cmd, fs, processed, parseVars, renderVars, batchVars, harvestVars, layoutVars>>

\* Lines 655-659: the input file is not there.
FileMissing ==
    /\ pc = "file"
    /\ fi <= Len(input_files)
    /\ input_files[fi] \notin fs.existing
    /\ IF ArgvLen(cmd) = 2
       THEN pc' = "done" /\ UNCHANGED fi
       ELSE fi' = fi + 1 /\ UNCHANGED pc
    /\ UNCHANGED <<cmd, fs, image_size, input_files, processed,
                   parseVars, renderVars, batchVars, harvestVars, layoutVars>>

\* Lines 661-688: the file is parsed (or cannot be read) and the batch set up.
FileParse ==
    /\ pc = "file"
    /\ fi <= Len(input_files)
    /\ input_files[fi] \in fs.existing
    /\ processed' = Append(processed, input_files[fi])
    /\ \E list \in {parse_kanji_csv_file(FileRows(fs, input_files[fi])), <<>>} :
          IF list = <<>>
          THEN /\ fi' = fi + 1
               /\ UNCHANGED <<pc, batchVars>>
          ELSE /\ kanji_list' = list
               /\ suffix' = SuffixOf(input_files[fi])
               /\ dirs' = dirs \cup {OutputDir(SuffixOf(input_files[fi]))}
               /\ successful' = 0
               /\ failed' = 0
               /\ i' = 0
               /\ calls' = <<>>
               /\ pc' = "render"
               /\ UNCHANGED fi
    /\ UNCHANGED <<cmd, fs, image_size, input_files, parseVars, renderVars, harvestVars, layoutVars>>

\* Lines 690-704: one round of the render loop, writing to the file that
\* carries file_number.
RenderStep(file_number) ==
    /\ pc = "render"
    /\ i < Len(kanji_list)
    /\ LET output_path == PathJoin(OutputDir(suffix), Filename(suffix, file_number))
       IN  /\ CreateKanjiImage(kanji_list[i + 1], output_path)
           /\ calls' = Append(calls, [kanji_data |-> kanji_list[i + 1],
                                      output_path |-> output_path, ok |-> ret'])
    /\ successful' = IF ret' THEN successful + 1 ELSE successful
    /\ failed' = IF ret' THEN failed ELSE failed + 1
    /\ i' = i + 1
    /\ UNCHANGED <<pc, kanji_list, suffix, dirs, parseVars, mainVars, harvestVars, layoutVars>>

\* A loop that gives up at the first failed render.
RenderOneAborting ==
    /\ RenderStep(i + 1)!1
    /\ RenderStep(i + 1)!2
    /\ RenderStep(i + 1)!3
    /\ successful' = IF ret' THEN successful + 1 ELSE successful
    /\ failed' = IF ret' THEN failed ELSE failed + 1
    /\ i' = IF ret' THEN i + 1 ELSE Len(kanji_list)
    /\ UNCHANGED <<pc, kanji_list, suffix, dirs, parseVars, mainVars, harvestVars, layoutVars>>

\* A loop that numbers the files by the count of successes.
RenderOneReusingNumber == RenderStep(successful + 1)

RenderOne == RenderStep(i + 1)

\* Lines 706-709: the report of the batch; on to the next input file.
BatchDone ==
    /\ pc = "render"
    /\ i >= Len(kanji_list)
    /\ fi' = fi + 1
    /\ pc' = "file"
    /\ UNCHANGED <<cmd, fs, image_size, input_files, processed,
                   parseVars, renderVars, batchVars, harvestVars, layoutVars>>

MainReturn ==
    /\ pc = "file"
    /\ fi > Len(input_files)
    /\ pc' = "done"
    /\ UNCHANGED <<cmd, fs, image_size, input_files, fi, processed,
                   parseVars, renderVars, batchVars, harvestVars, layoutVars>>

NextMain == MainArgs \/ FileMissing \/ FileParse \/ RenderOne \/ BatchDone \/ MainReturn

SpecMain == InitMain /\ [][NextMain]_vars

(***************************************************************************)
(* The harvester.  A kanji box of the page either makes the click raise,   *)
(* shows no data panel, shows a panel without the header elements, or      *)
(* shows data.  An element that is not there is None.                      *)
(***************************************************************************)
MaxBoxes == 2

BoxKinds == {"click_error", "no_data", "no_elements", "data"}

\* A compound whose translation lists two senses, as in "to see; to look".
TwoSenses == [word |-> <<"a">>, kana |-> <<"HA">>,
              translation |-> <<"a", ";", " ", "b">>]

PageData(k) ==
    [kanji |-> <<" ">> \o Repeat("a", k),
     meaning |-> <<"b", " ">>,
     readings |-> << <<"KA", "KU">>, <<" ">>, <<"HA", "HI", " ">>, <<>> >>,
     compounds |-> << [word |-> <<"a", "b">>, kana |-> <<" ", "HA">>,
                       translation |-> <<"a", " ", "b">>],
                      [word |-> <<"a">>, kana |-> None, translation |-> <<"b">>],
                      [word |-> <<"b">>, kana |-> <<"HI">>, translation |-> <<>>],
                      [word |-> <<"b", "a">>, kana |-> <<"HI">>,
                       translation |-> <<"b", " ">>] >>
                   \o (IF k = 2 THEN <<TwoSenses>> ELSE <<>>)]

Pages == {<<>>} \cup SeqsUpTo(BoxKinds, MaxBoxes)

LevelFilename(level_) ==
    <<"k", "a", "n", "j", "i", "_", "n">> \o Decimal(level_) \o <<".", "c", "s", "v">>

Levels == 1..5
HarvestFiles == {LevelFilename(l) : l \in Levels}

\* What a CSV file holds before the run.
OldRows == <<[kanji |-> <<"o">>, meaning |-> <<"o">>, readings |-> <<>>,
              compounds |-> <<>>]>>

\* Lines 45-50
RECURSIVE ScrapedReadings(_)
ScrapedReadings(reading_elements) ==
    IF reading_elements = <<>> THEN <<>>
    ELSE IF Head(reading_elements) # <<>> /\ Strip(Head(reading_elements)) # <<>>
         THEN <<Strip(Head(reading_elements))>> \o ScrapedReadings(Tail(reading_elements))
         ELSE ScrapedReadings(Tail(reading_elements))

\* Lines 52-70
RECURSIVE ScrapedCompounds(_)
ScrapedCompounds(compound_elements) ==
    IF compound_elements = <<>> THEN <<>>
    ELSE LET c == Head(compound_elements)
         IN  IF /\ c.word # None /\ c.kana # None /\ c.translation # None
                /\ c.word # <<>> /\ c.kana # <<>> /\ c.translation # <<>>
             THEN <<[word |-> Strip(c.word), kana |-> Strip(c.kana),
                     translation |-> Strip(c.translation)]>>
                  \o ScrapedCompounds(Tail(compound_elements))
             ELSE ScrapedCompounds(Tail(compound_elements))

\* Lines 41-77
Scraped(data) ==
    [kanji |-> Strip(data.kanji),
     meaning |-> Strip(data.meaning),
     readings |-> ScrapedReadings(data.readings),
     compounds |-> ScrapedCompounds(data.compounds)]

\* Lines 104 and 116
CompoundText(c) ==
    c.word \o <<" ", "(">> \o c.kana \o <<")", " ", "=", " ">> \o c.translation

\* Lines 100-105 and 112-117
CsvRow(r) ==
    [kanji |-> r.kanji,
     meaning |-> r.meaning,
     readings |-> Join(r.readings, <<";", " ">>),
     compounds |-> Join([k \in 1..Len(r.compounds) |-> CompoundText(r.compounds[k])],
                        <<";", " ">>)]

CsvRows(results_) == [k \in 1..Len(results_) |-> CsvRow(results_[k])]

InitHarvest ==
    /\ level \in Levels
    /\ kanji_boxes \in Pages
    /\ box = 0
    /\ results = <<>>
    /\ disk = [f \in HarvestFiles |-> OldRows]
    /\ pc = "scrape"
    /\ ParseIdle
    /\ RenderIdle
    /\ MainIdle
    /\ BatchIdle
    /\ LayoutIdle

\* Lines 27-88: one kanji box.
ProcessBox ==
    /\ pc = "scrape"
    /\ box < Len(kanji_boxes)
    /\ box' = box + 1
    /\ results' = IF kanji_boxes[box + 1] = "data"
                  THEN Append(results, Scraped(PageData(box + 1)))
                  ELSE results
    /\ UNCHANGED <<pc, level, kanji_boxes, disk,
                   parseVars, renderVars, mainVars, batchVars, layoutVars>>

\* Lines 90-92
CloseBrowser ==
    /\ pc = "scrape"
    /\ box >= Len(kanji_boxes)
    /\ pc' = "save"
    /\ UNCHANGED <<harvestVars, parseVars, renderVars, mainVars, batchVars, layoutVars>>

\* Lines 94-107
WriteLevelFile ==
    /\ pc = "save"
    /\ disk' = [disk EXCEPT ![LevelFilename(level)] = CsvRows(results)]
    /\ pc' = "save_n2"
    /\ UNCHANGED <<level, kanji_boxes, box, results,
                   parseVars, renderVars, mainVars, batchVars, layoutVars>>

\* Lines 108-117
WriteN2File ==
    /\ pc = "save_n2"
    /\ disk' = [disk EXCEPT ![DefaultFile(2)] = CsvRows(results)]
    /\ pc' = "saved"
    /\ UNCHANGED <<level, kanji_boxes, box, results,
                   parseVars, renderVars, mainVars, batchVars, layoutVars>>

NextHarvest == ProcessBox \/ CloseBrowser \/ WriteLevelFile \/ WriteN2File

SpecHarvest == InitHarvest /\ [][NextHarvest]_vars

(***************************************************************************)
(* The layout engine: KanjiImageGenerator.__init__, _s and the fonts.      *)
(***************************************************************************)
BASE_IMAGE_WIDTH == 1920
BASE_IMAGE_HEIGHT == 1080

\* self.scale = min(width / 1920, height / 1080), kept as a fraction.
ScaleNum(size) ==
    IF size[1] * BASE_IMAGE_HEIGHT <= size[2] * BASE_IMAGE_WIDTH THEN size[1] ELSE size[2]
ScaleDen(size) ==
    IF size[1] * BASE_IMAGE_HEIGHT <= size[2] * BASE_IMAGE_WIDTH
    THEN BASE_IMAGE_WIDTH ELSE BASE_IMAGE_HEIGHT

\* round(): to the nearest integer, a tie to the even one.
Round(num, den) ==
    LET q == num \div den
        r == num % den
    IN  IF 2 * r < den THEN q
        ELSE IF 2 * r > den THEN q + 1
        ELSE IF q % 2 = 0 THEN q ELSE q + 1


\* _s(px, minimum)
S(px, minimum, size) == Max({Round(px * ScaleNum(size), ScaleDen(size)), minimum})

FontMedium(size) == S(32, 12, size)
FontSmall(size) == S(30, 11, size)

(***************************************************************************)
(* draw.textbbox is outside the program.  For the compounds it is taken    *)
(* to add up glyph advances: a full-width glyph is as wide as the font     *)
(* size, another letter half of it, a blank or punctuation a quarter.      *)
(* For a reading chip any positive width can come back.                    *)
(***************************************************************************)
Advance(c, font) ==
    IF c \in HiraganaBlock \cup KatakanaBlock THEN font
    ELSE IF c \in Whitespace \cup {".", ",", "(", ")", "=", ";"} THEN Max({font \div 4, 1})
    ELSE Max({font \div 2, 1})

RECURSIVE TextWidth(_, _)
TextWidth(text, font) ==
    IF text = <<>> THEN 0 ELSE Advance(Head(text), font) + TextWidth(Tail(text), font)

\* str.split()
RECURSIVE SplitWordsAcc(_, _)
SplitWordsAcc(text, cur) ==
    IF text = <<>> THEN (IF cur = <<>> THEN <<>> ELSE <<cur>>)
    ELSE IF Head(text) \in Whitespace
         THEN (IF cur = <<>> THEN <<>> ELSE <<cur>>) \o SplitWordsAcc(Tail(text), <<>>)
         ELSE SplitWordsAcc(Tail(text), Append(cur, Head(text)))

SplitWords(text) == SplitWordsAcc(text, <<>>)

JoinWords(words) == Join(words, <<" ">>)

(***************************************************************************)
(* Lines 360-444: the lines one compound wraps to.                         *)
(***************************************************************************)
\* Lines 381-393: how many gloss words the first line takes.
RECURSIVE FirstLineCount(_, _, _, _)
FirstLineCount(meaning_words, n, available_for_meaning, font) ==
    IF n = Len(meaning_words) THEN n
    ELSE IF 10 * TextWidth(JoinWords(Take(meaning_words, n + 1)), font)
              <= 9 * available_for_meaning
         THEN FirstLineCount(meaning_words, n + 1, available_for_meaning, font)
         ELSE n

ContinuationLine(words) == [kanji |-> <<>>, reading |-> <<>>, meaning |-> JoinWords(words)]

\* The continuation lines without the word that ends a full line.
RECURSIVE RemainingLinesDroppingOverflow(_, _, _, _)
RemainingLinesDroppingOverflow(remaining_words, current_line, max_box_width, font) ==
    IF remaining_words = <<>>
    THEN (IF current_line # <<>> THEN <<ContinuationLine(current_line)>> ELSE <<>>)
    ELSE LET test_line == Append(current_line, Head(remaining_words))
         IN  IF 10 * TextWidth(JoinWords(test_line), font) <= 9 * max_box_width
             THEN RemainingLinesDroppingOverflow(Tail(remaining_words), test_line,
                                                 max_box_width, font)
             ELSE (IF current_line # <<>> THEN <<ContinuationLine(current_line)>> ELSE <<>>)
                  \o RemainingLinesDroppingOverflow(Tail(remaining_words), <<>>,
                                                    max_box_width, font)

\* Lines 425-444
RECURSIVE RemainingLines(_, _, _, _)
RemainingLines(remaining_words, current_line, max_box_width, font) ==
    IF remaining_words = <<>>
    THEN (IF current_line # <<>> THEN <<ContinuationLine(current_line)>> ELSE <<>>)
    ELSE LET test_line == Append(current_line, Head(remaining_words))
         IN  IF 10 * TextWidth(JoinWords(test_line), font) <= 9 * max_box_width
             THEN RemainingLines(Tail(remaining_words), test_line, max_box_width, font)
             ELSE (IF current_line # <<>> THEN <<ContinuationLine(current_line)>> ELSE <<>>)
                  \o RemainingLines(Tail(remaining_words), <<Head(remaining_words)>>,
                                    max_box_width, font)

KanjiReadingWidth(compound, size) ==
    TextWidth(compound.kanji, FontSmall(size)) + S(8, 1, size)
        + TextWidth(compound.reading, FontSmall(size)) + S(12, 1, size)

WrapCompoundLines(compound, max_box_width, size) ==
    LET font == FontSmall(size)
        available_for_meaning == max_box_width - KanjiReadingWidth(compound, size)
        meaning_words == SplitWords(compound.meaning)
        n == FirstLineCount(meaning_words, 0, available_for_meaning, font)
        all_fit == n = Len(meaning_words)
        first_line_meaning ==
            IF all_fit THEN compound.meaning ELSE JoinWords(Take(meaning_words, n))
        remaining_meaning ==
            IF first_line_meaning = <<>> THEN compound.meaning
            ELSE IF all_fit THEN <<>>
            ELSE JoinWords(Drop(meaning_words, n))
    IN  <<[kanji |-> compound.kanji, reading |-> compound.reading,
           meaning |-> first_line_meaning]>>
        \o RemainingLines(SplitWords(remaining_meaning), <<>>, max_box_width, font)

(***************************************************************************)
(* Inputs of the layout engine.                                            *)
(***************************************************************************)
MaxChips == 2

\* The baseline, the two sizes of the scale test, two common sizes, two
\* thumbnails, and a strip so low that the header uses up its height.
CanvasSizes ==
    {<<1920, 1080>>, <<960, 540>>, <<3840, 2160>>, <<1280, 720>>, <<640, 480>>,
     <<200, 100>>, <<96, 54>>, <<400, 10>>}

ChipTexts == {<<"KA">>, <<"KA", ".", "KU">>, <<"KA", "DOT", "KU">>}
ChipLists == {<<>>} \cup SeqsUpTo(ChipTexts, MaxChips)

ShortCompound == [kanji |-> <<"a", "b">>, reading |-> <<"HA", "HI">>,
                  meaning |-> <<"a", " ", "b">>]
LongCompound == [kanji |-> <<"b">>, reading |-> <<"HI">>,
                 meaning |-> JoinWords(Repeat(<<"a", "b">>, 12))]
BareCompound == [kanji |-> <<"a">>, reading |-> <<>>, meaning |-> <<"b">>]
\* A gloss that starts with a word of thirty letters.
WideCompound == [kanji |-> <<"a">>, reading |-> <<"HI">>,
                 meaning |-> Repeat("a", 30) \o <<" ", "b", " ", "a">>]

CompoundLists ==
    {<<>>, <<ShortCompound>>, <<LongCompound>>,
     <<ShortCompound, BareCompound, LongCompound>>,
     <<WideCompound>>, <<WideCompound, ShortCompound>>}

LayoutEntries ==
    {[kanji |-> k, meaning |-> <<"b">>, hiragana_readings |-> h,
      katakana_readings |-> r, compounds |-> c] :
        k \in {<<"a">>}, h \in {<<>>, << <<"HA">> >>}, r \in ChipLists,
        c \in CompoundLists}
    \cup {NoData}

(***************************************************************************)
(* create_kanji_image, step by step.                                       *)
(***************************************************************************)
TextAt(x, y, text, width) == [op |-> "text", x |-> x, y |-> y, text |-> text,
                              width |-> width]
RectAt(op, x0, y0, x1, y1) == [op |-> op, x0 |-> x0, y0 |-> y0, x1 |-> x1, y1 |-> y1]

InitLayout ==
    /\ kanji_data \in LayoutEntries
    /\ image_size \in CanvasSizes
    /\ pc = "create"
    /\ given = NoGiven
    /\ row = [kanji |-> <<>>, meaning |-> <<>>, readings |-> <<>>, compounds |-> <<>>]
    /\ raised = FALSE
    /\ parsed_kanji = <<>>
    /\ cmd = [csv |-> <<>>, opts |-> <<>>]
    /\ fs = [existing |-> {}, rows |-> 0]
    /\ input_files = <<>>
    /\ fi = 1
    /\ processed = <<>>
    /\ RenderIdle
    /\ BatchIdle
    /\ HarvestIdle
    /\ LayoutIdle

layoutFrame == <<given, row, kanji_data, raised, parsed_kanji, cmd, fs, image_size,
                 input_files, fi, processed, batchVars, harvestVars>>

\* Lines 183-185
RejectEntry ==
    /\ pc = "create"
    /\ kanji_data.kanji = <<>>
    /\ ret' = FALSE
    /\ pc' = "returned"
    /\ UNCHANGED <<painted, output_files, layoutVars, layoutFrame>>

\* Lines 187-236: the canvas, the kanji, the meaning, the metrics of the chips.
PaintHeader ==
    /\ pc = "create"
    /\ kanji_data.kanji # <<>>
    /\ LET x_margin == S(80, 1, image_size)
           estimated_content_height == S(400, 1, image_size)
           y_center_offset == (image_size[2] - estimated_content_height) \div 2
           y_margin == Max({S(50, 1, image_size), y_center_offset})
           vertical_spacing == S(20, 1, image_size)
           left_x == x_margin
           kanji_y == y_margin + S(30, 1, image_size)
           right_x == left_x + S(350, 1, image_size)
           right_y == y_margin + S(45, 1, image_size) + vertical_spacing
       IN  /\ local' = [local EXCEPT
                 !.x_margin = x_margin, !.y_margin = y_margin,
                 !.vertical_spacing = vertical_spacing, !.left_x = left_x,
                 !.kanji_y = kanji_y, !.right_x = right_x, !.right_y = right_y,
                 !.pill_padding_x = S(6, 1, image_size),
                 !.pill_padding_y = S(4, 1, image_size),
                 !.pill_gap = S(16, 1, image_size),
                 !.max_reading_x = image_size[1] - x_margin,
                 !.reading_line_step = S(40, 1, image_size),
                 !.current_x = right_x, !.y = right_y]
           /\ drawn' = <<TextAt(left_x, kanji_y, kanji_data.kanji, 0),
                         TextAt(right_x, y_margin, kanji_data.meaning, 0)>>
    /\ painted' = Append(painted, kanji_data.kanji)
    /\ ri' = 0
    /\ on_line' = 0
    /\ pc' = "katakana"
    /\ UNCHANGED <<ret, output_files, wrapped_compound_lines, ci, li, layoutFrame>>

Readings(family) ==
    IF family = "katakana" THEN kanji_data.katakana_readings
    ELSE kanji_data.hiragana_readings

AfterReadings(family) == IF family = "katakana" THEN "hiragana" ELSE "box"

IsDotted(reading) == \E k \in 1..Len(reading) : reading[k] \in {"DOT", "."}

\* reading.split(sep, 1) on the middle dot if there is one, else on the period
DotParts(reading) ==
    LET sep == IF Positions(reading, "DOT") # {} THEN "DOT" ELSE "."
        at == Min(Positions(reading, sep))
    IN  <<Take(reading, at - 1), Drop(reading, at)>>

\* The widths draw.textbbox may report for a chip: a small one, the one that
\* puts the right edge of the chip on the right margin, and one more.
MeasuredWidths ==
    LET fit == local.max_reading_x - local.current_x - 2 * local.pill_padding_x
    IN  {w \in {2 * FontMedium(image_size), fit, fit + 1} : w >= 2}

\* Lines 271-274 and 312-315: the branch that ends the line
\* with >= in place of >
WrapsBeforeOrAt(current_x, pill_total_width, max_reading_x, right_x) ==
    current_x + pill_total_width >= max_reading_x /\ current_x # right_x

WrapsBefore(current_x, pill_total_width, max_reading_x, right_x) ==
    current_x + pill_total_width > max_reading_x /\ current_x # right_x

\* Lines 255-333: one reading chip.
DrawChip(family) ==
    /\ pc = family
    /\ ri < Len(Readings(family))
    /\ \E width \in MeasuredWidths :
        LET reading == Readings(family)[ri + 1]
            pill_total_width == width + 2 * local.pill_padding_x
            wraps == WrapsBefore(local.current_x, pill_total_width,
                                 local.max_reading_x, local.right_x)
            y == IF wraps THEN local.y + local.reading_line_step ELSE local.y
            current_x == IF wraps THEN local.right_x ELSE local.current_x
            width_before == width \div 2
            background ==
                RectAt("pill", current_x - local.pill_padding_x, y - local.pill_padding_y,
                       current_x + width + local.pill_padding_x,
                       y + FontMedium(image_size) + local.pill_padding_y)
        IN  /\ drawn' =
                 IF IsDotted(reading)
                 THEN <<background,
                        TextAt(current_x, y, DotParts(reading)[1], width_before),
                        TextAt(current_x + width_before, y, DotParts(reading)[2],
                               width - width_before)>>
                 ELSE <<background, TextAt(current_x, y, reading, width)>>
            /\ local' = [local EXCEPT !.y = y,
                             !.current_x = current_x + pill_total_width + local.pill_gap]
            /\ on_line' = IF wraps THEN 1 ELSE on_line + 1
    /\ ri' = ri + 1
    /\ UNCHANGED <<pc, ret, painted, output_files, wrapped_compound_lines, ci, li,
                   layoutFrame>>

\* Lines 335, 339 and 343: the family is drawn, the cursor moves down.
EndReadings(family) ==
    /\ pc = family
    /\ Readings(family) # <<>>
    /\ ri = Len(Readings(family))
    /\ LET right_y == local.y + local.reading_line_step + local.vertical_spacing
       IN  local' = [local EXCEPT !.right_y = right_y, !.y = right_y,
                                  !.current_x = local.right_x]
    /\ ri' = 0
    /\ on_line' = 0
    /\ pc' = AfterReadings(family)
    /\ UNCHANGED <<ret, painted, output_files, wrapped_compound_lines, ci, li, drawn,
                   layoutFrame>>

\* Lines 338 and 342: a family without readings is passed over.
SkipReadings(family) ==
    /\ pc = family
    /\ Readings(family) = <<>>
    /\ pc' = AfterReadings(family)
    /\ UNCHANGED <<ret, painted, output_files, layoutVars, layoutFrame>>

\* Lines 345-359
BoxOrigin ==
    /\ pc = "box"
    /\ LET box_padding == S(15, 1, image_size)
           available_width == image_size[1] - local.right_x - local.x_margin
                                  - S(20, 1, image_size)
       IN  local' = [local EXCEPT
                 !.box_padding = box_padding,
                 !.line_spacing = S(38, 1, image_size),
                 !.box_x0 = local.right_x - box_padding,
                 !.box_y0 = local.right_y + local.vertical_spacing,
                 !.max_box_width = available_width - (box_padding * 2)]
    /\ wrapped_compound_lines' = <<>>
    /\ ci' = 0
    /\ pc' = "wrap"
    /\ UNCHANGED <<ret, painted, output_files, ri, li, on_line, drawn, layoutFrame>>

\* Lines 360-444: one compound.
WrapCompound ==
    /\ pc = "wrap"
    /\ ci < Len(kanji_data.compounds)
    /\ LET compound == kanji_data.compounds[ci + 1]
       IN  /\ wrapped_compound_lines' = wrapped_compound_lines
                 \o WrapCompoundLines(compound, local.max_box_width, image_size)
           /\ local' = [local EXCEPT
                 !.kanji_width = TextWidth(compound.kanji, FontSmall(image_size)),
                 !.reading_width = TextWidth(compound.reading, FontSmall(image_size)),
                 !.kanji_reading_width = KanjiReadingWidth(compound, image_size)]
    /\ ci' = ci + 1
    /\ UNCHANGED <<pc, ret, painted, output_files, ri, li, on_line, drawn, layoutFrame>>

\* Lines 446-475: the height of the box and its rectangle.
DrawBox ==
    /\ pc = "wrap"
    /\ ci = Len(kanji_data.compounds)
    /\ LET max_available_height == image_size[2] - local.box_y0 - S(30, 1, image_size)
           ideal_content_height == Len(wrapped_compound_lines) * local.line_spacing
           actual_content_height ==
               Min({ideal_content_height, max_available_height - (local.box_padding * 2)})
           box_y1 == IF wrapped_compound_lines # <<>>
                     THEN local.box_y0 + actual_content_height + (local.box_padding * 2)
                     ELSE local.box_y0 + (local.box_padding * 2) + 30
           box_x1 == image_size[1] - local.x_margin
       IN  /\ local' = [local EXCEPT !.box_y1 = box_y1, !.box_x1 = box_x1,
                                     !.compound_y = local.box_y0 + local.box_padding]
           /\ drawn' = <<RectAt("rectangle", local.box_x0, local.box_y0, box_x1, box_y1)>>
    /\ li' = 0
    /\ pc' = IF wrapped_compound_lines # <<>> THEN "paint" ELSE "save"
    /\ UNCHANGED <<ret, painted, output_files, wrapped_compound_lines, ri, ci, on_line,
                   layoutFrame>>

\* Lines 476-533: one wrapped line.
PaintLine ==
    /\ pc = "paint"
    /\ li < Len(wrapped_compound_lines)
    /\ LET line_parts == wrapped_compound_lines[li + 1]
           font == FontSmall(image_size)
           current_x == local.right_x
           kanji_w == TextWidth(line_parts.kanji, font)
           reading_w == TextWidth(line_parts.reading, font)
           compound_y == local.compound_y + local.line_spacing
       IN  /\ drawn' =
                 IF line_parts.kanji # <<>> /\ line_parts.reading # <<>>
                        /\ line_parts.meaning # <<>>
                 THEN <<TextAt(current_x, local.compound_y, line_parts.kanji, kanji_w),
                        TextAt(current_x + kanji_w + 8, local.compound_y,
                               line_parts.reading, reading_w),
                        TextAt(current_x + kanji_w + 8 + reading_w + 12, local.compound_y,
                               line_parts.meaning, TextWidth(line_parts.meaning, font))>>
                 ELSE IF line_parts.meaning # <<>>
                 THEN <<TextAt(current_x, local.compound_y, line_parts.meaning,
                               TextWidth(line_parts.meaning, font))>>
                 ELSE <<>>
           /\ local' = [local EXCEPT !.compound_y = compound_y]
           /\ pc' = IF compound_y > local.box_y1 - local.box_padding
                       \/ li + 1 = Len(wrapped_compound_lines)
                    THEN "save" ELSE "paint"
    /\ li' = li + 1
    /\ UNCHANGED <<ret, painted, output_files, wrapped_compound_lines, ri, ci, on_line,
                   layoutFrame>>

\* Lines 535-542
SaveImage ==
    /\ pc = "save"
    /\ \/ /\ output_files' = output_files \cup {DirectPath}
          /\ ret' = TRUE
       \/ /\ UNCHANGED output_files
          /\ ret' = FALSE
    /\ pc' = "returned"
    /\ UNCHANGED <<painted, layoutVars, layoutFrame>>

NextLayout ==
    \/ RejectEntry
    \/ PaintHeader
    \/ DrawChip("katakana")
    \/ DrawChip("hiragana")
    \/ EndReadings("katakana")
    \/ EndReadings("hiragana")
    \/ SkipReadings("katakana")
    \/ SkipReadings("hiragana")
    \/ BoxOrigin
    \/ WrapCompound
    \/ DrawBox
    \/ PaintLine
    \/ SaveImage

SpecLayout == InitLayout /\ [][NextLayout]_vars

(***************************************************************************)
(* Claims about the parser, checked under SpecParse.                       *)
(***************************************************************************)
IsOk(f) == f.ok

ExpectedCompounds(fragments) ==
    LET wf == SelectSeq(fragments, IsOk)
    IN  [k \in 1..Len(wf) |->
            [kanji |-> wf[k].word, reading |-> wf[k].reading, meaning |-> wf[k].gloss]]

\* C1: a compounds string written from N well-formed fragments, with at most
\* one malformed fragment among them, parses to exactly the N well-formed
\* records, in source order, each with its fragment's word, reading and
\* gloss, and to nothing for the malformed fragment.
C1_CompoundsInOrder ==
    (pc # "start" /\ given.fragments # <<>>)
        => kanji_data.compounds = ExpectedCompounds(given.fragments)

C1_Witness ==
    /\ pc = "parsed"
    /\ Len(given.fragments) = 3
    /\ given.fragments[1].ok /\ ~given.fragments[2].ok /\ given.fragments[3].ok
    /\ given.fragments[1] # given.fragments[3]
    /\ Len(kanji_data.compounds) = 2

\* C2: a readings string written from family-A tokens joined by "; " parses
\* to the same tokens in the same order in katakana_readings and to an
\* empty hiragana_readings.
C2_FamilyARoundTrip ==
    (pc # "start" /\ given.tokens # <<>>)
        => /\ kanji_data.katakana_readings = given.tokens
           /\ kanji_data.hiragana_readings = <<>>

\* C3: the row loop of parse_kanji_csv_file excludes a row only when the
\* row's character field is empty after trimming.
C3_ExcludedOnlyWhenEmpty ==
    (pc # "start" /\ parsed_kanji = <<>>) => Strip(row.kanji) = <<>>

\* C4: a row whose character field is empty after trimming is left out of
\* the list parse_kanji_csv_file returns, and create_kanji_image on its
\* entry returns False, paints nothing and writes no file.
C4_EmptyNeverRendered ==
    (pc # "start" /\ Strip(row.kanji) = <<>>)
        => /\ parsed_kanji = <<>>
           /\ painted = <<>>
           /\ output_files = {}
           /\ (pc = "rendered" => ret = FALSE)

C4_Witness ==
    /\ pc = "rendered"
    /\ row.kanji = <<" ">>
    /\ row.compounds = SampleCompounds
    /\ ret = FALSE
    /\ parsed_kanji = <<>>

(***************************************************************************)
(* Claims about main, checked under SpecMain.                              *)
(***************************************************************************)
\* C5: in the render loop every entry of the parsed list is handed to
\* create_kanji_image exactly once, in input order, whether or not earlier
\* renders failed, and when the loop ends successful + failed is the number
\* of entries of the list.
C5_BatchCompletes ==
    pc = "render"
        => /\ Len(calls) <= Len(kanji_list)
           /\ \A k \in 1..Len(calls) : calls[k].kanji_data = kanji_list[k]
           /\ i >= Len(kanji_list)
                => /\ Len(calls) = Len(kanji_list)
                   /\ successful + failed = Len(kanji_list)

C5_Witness ==
    /\ pc = "render"
    /\ Len(kanji_list) >= 2
    /\ i = Len(kanji_list)
    /\ ~calls[1].ok
    /\ calls[2].ok
    /\ successful = 1
    /\ failed = 1

DigitValue(c) == (CHOOSE k \in 1..10 : DigitChars[k] = c) - 1
IsDigit(c) == \E k \in 1..10 : DigitChars[k] = c

\* The number a file name carries: the five characters between the last
\* underscore and the extension, read as a decimal number (-1 when they are
\* not five digits after an underscore).
NumberCarried(path) ==
    LET n == Len(path)
    IN  IF /\ n >= 10
           /\ SubSeq(path, n - 3, n) = <<".", "p", "n", "g">>
           /\ path[n - 9] = "_"
           /\ \A k \in (n - 8)..(n - 4) : IsDigit(path[k])
        THEN 10000 * DigitValue(path[n - 8]) + 1000 * DigitValue(path[n - 7])
             + 100 * DigitValue(path[n - 6]) + 10 * DigitValue(path[n - 5])
             + DigitValue(path[n - 4])
        ELSE -1

\* C6: within a batch the k-th entry of the parsed list is written to the
\* file name that carries the zero-padded five-digit number k, whether or
\* not earlier renders failed; no two entries share a file name.
C6_SequenceNumbers ==
    pc = "render"
        => /\ \A k \in 1..Len(calls) : NumberCarried(calls[k].output_path) = k
           /\ \A k, m \in 1..Len(calls) :
                 k # m => calls[k].output_path # calls[m].output_path

C6_Witness ==
    /\ pc = "render"
    /\ Len(calls) >= 2
    /\ ~calls[1].ok
    /\ calls[2].ok
    /\ NumberCarried(calls[2].output_path) = 2

Range(f) == {f[k] : k \in DOMAIN f}

\* C7: run without an input-file argument, main has, when it returns,
\* gone on to process every default file that exists, whatever options
\* were given.
C7_MissingDefaultSkipped ==
    (pc = "done" /\ cmd.csv = <<>>)
        => \A k \in 1..Len(DefaultFiles) :
              DefaultFiles[k] \in fs.existing => DefaultFiles[k] \in Range(processed)

(***************************************************************************)
(* Claims about the harvester, checked under SpecHarvest.                  *)
(***************************************************************************)
\* C8: the harvester run with level L leaves its scraped records in the
\* file named for L and leaves every other file as it was.
C8_OnlyLevelFileWritten ==
    pc = "saved"
        => /\ disk[LevelFilename(level)] = CsvRows(results)
           /\ \A f \in HarvestFiles : f # LevelFilename(level) => disk[f] = OldRows

(***************************************************************************)
(* Claims about the layout engine, checked under SpecLayout.               *)
(***************************************************************************)
\* v is the baseline value times min(W/1920, H/1080), rounded to a nearest
\* integer, or the minimum where that falls below the minimum.
IsScaled(v, base, minimum) ==
    LET num == ScaleNum(image_size)
        den == ScaleDen(image_size)
    IN  \/ /\ v >= minimum
           /\ 2 * v * den - 2 * base * num <= den
           /\ 2 * base * num - 2 * v * den <= den
        \/ /\ v = minimum
           /\ 2 * base * num <= (2 * minimum + 1) * den

\* C9: every offset, gap, padding and line step create_kanji_image uses,
\* when measuring and when painting, is the 1920x1080 baseline value scaled
\* by min(W/1920, H/1080) and clamped to its minimum: the margins and chip
\* metrics, the box padding and line step, the gaps between word, reading
\* and gloss as measured and as painted, and the minimum height of an empty
\* compound box.
C9_ScaleInvariance ==
    /\ local # NoLocal
         => /\ IsScaled(local.x_margin, 80, 1)
            /\ IsScaled(local.vertical_spacing, 20, 1)
            /\ IsScaled(local.kanji_y - local.y_margin, 30, 1)
            /\ IsScaled(local.right_x - local.left_x, 350, 1)
            /\ IsScaled(local.pill_padding_x, 6, 1)
            /\ IsScaled(local.pill_padding_y, 4, 1)
            /\ IsScaled(local.pill_gap, 16, 1)
            /\ IsScaled(local.reading_line_step, 40, 1)
    /\ pc \in {"wrap", "paint", "save"}
         => /\ IsScaled(local.box_padding, 15, 1)
            /\ IsScaled(local.line_spacing, 38, 1)
            /\ IsScaled(local.box_y0 - local.right_y, 20, 1)
    /\ (pc \in {"wrap", "paint", "save"} /\ ci > 0)
         => \E a \in 1..local.kanji_reading_width :
               /\ IsScaled(a, 8, 1)
               /\ IsScaled(local.kanji_reading_width - local.kanji_width
                               - local.reading_width - a, 12, 1)
    /\ (pc \in {"paint", "save"} /\ Len(drawn) = 3)
         => /\ IsScaled(drawn[2].x - drawn[1].x - drawn[1].width, 8, 1)
            /\ IsScaled(drawn[3].x - drawn[2].x - drawn[2].width, 12, 1)
    /\ (pc = "save" /\ wrapped_compound_lines = <<>>)
         => IsScaled(local.box_y1 - local.box_y0 - 2 * local.box_padding, 30, 1)

\* The part of C9 that the code keeps: what is measured is scaled.
C9_MeasuredScaled ==
    /\ local # NoLocal
         => /\ IsScaled(local.x_margin, 80, 1)
            /\ IsScaled(local.vertical_spacing, 20, 1)
            /\ IsScaled(local.kanji_y - local.y_margin, 30, 1)
            /\ IsScaled(local.right_x - local.left_x, 350, 1)
            /\ IsScaled(local.pill_padding_x, 6, 1)
            /\ IsScaled(local.pill_padding_y, 4, 1)
            /\ IsScaled(local.pill_gap, 16, 1)
            /\ IsScaled(local.reading_line_step, 40, 1)
    /\ pc \in {"wrap", "paint", "save"}
         => /\ IsScaled(local.box_padding, 15, 1)
            /\ IsScaled(local.line_spacing, 38, 1)
            /\ IsScaled(local.box_y0 - local.right_y, 20, 1)
    /\ (pc \in {"wrap", "paint", "save"} /\ ci > 0)
         => \E a \in 1..local.kanji_reading_width :
               /\ IsScaled(a, 8, 1)
               /\ IsScaled(local.kanji_reading_width - local.kanji_width
                               - local.reading_width - a, 12, 1)

\* C10: a reading chip that is not the first on its line stays on the line
\* when its right edge (current x + text width + 2 x padding) is exactly on
\* the right margin (canvas width minus the margin), and goes to the start
\* of a new line, one line step lower, when its right edge is past it.
C10_WrapBoundary ==
    [][(pc \in {"katakana", "hiragana"} /\ ri' = ri + 1 /\ on_line >= 1)
          => LET edge == local.current_x + (drawn'[1].x1 - drawn'[1].x0)
                 margin == image_size[1] - S(80, 1, image_size)
             IN  /\ edge = margin
                      => /\ drawn'[2].x = local.current_x
                         /\ drawn'[2].y = local.y
                 /\ edge > margin
                      => /\ drawn'[2].x = local.right_x
                         /\ drawn'[2].y = local.y + S(40, 1, image_size)]_vars

C10_Witness ==
    /\ pc \in {"katakana", "hiragana"}
    /\ on_line >= 2
    /\ drawn # <<>>
    /\ drawn[1].op = "pill"
    /\ drawn[2].x + (drawn[1].x1 - drawn[1].x0) = image_size[1] - S(80, 1, image_size)

\* The box has been drawn for an entry with at least one compound.
BoxWithLines == pc \in {"paint", "save"} /\ wrapped_compound_lines # <<>>

\* The height of the box is the lesser of the height of its content and the
\* space left down to the bottom margin.
C11_HeightIsLesser ==
    BoxWithLines
        => local.box_y1 - local.box_y0 =
              Min({Len(wrapped_compound_lines) * S(38, 1, image_size)
                       + 2 * S(15, 1, image_size),
                   image_size[2] - S(30, 1, image_size) - local.box_y0})

\* The text of a line was painted with the cursor at most at the bottom edge
\* of the box.
C11_PaintedInsideBox ==
    (BoxWithLines /\ li >= 1 /\ drawn # <<>>) => drawn[1].y <= local.box_y1

\* C11: for an entry with at least one compound the height of the box is the
\* lesser of the content height (line count x line step, plus padding) and
\* the space remaining down to the bottom margin, and no line is painted
\* with its cursor below the bottom edge of the box.
C11_BoxTruncation == C11_HeightIsLesser /\ C11_PaintedInsideBox

\* The line the painting loop has just been through, where its cursor was
\* inside the box.
PaintedLineInBox ==
    /\ BoxWithLines
    /\ li >= 1
    /\ local.compound_y - local.line_spacing <= local.box_y1

\* C12: the first line of a compound paints the word, at the column of the
\* word, and the reading, and after them the part of the gloss that was
\* packed onto the line, also where no gloss word was; a continuation line
\* paints its gloss text alone, at the column of the word.
C12_FirstLinePaintsWord ==
    PaintedLineInBox
        => LET line_parts == wrapped_compound_lines[li]
           IN  IF line_parts.kanji # <<>>
               THEN /\ Len(drawn) >= 2
                    /\ drawn[1].text = line_parts.kanji
                    /\ drawn[1].x = local.right_x
                    /\ drawn[2].text = line_parts.reading
                    /\ line_parts.meaning # <<>>
                         => /\ Len(drawn) = 3
                            /\ drawn[3].text = line_parts.meaning
               ELSE /\ Len(drawn) = 1
                    /\ drawn[1].text = line_parts.meaning
                    /\ drawn[1].x = local.right_x

\* The same for the lines that have a word, a reading and gloss text, and for
\* the continuation lines: the part of C12 that the code keeps.
C12_FullLinesPainted ==
    (PaintedLineInBox
        /\ LET line_parts == wrapped_compound_lines[li]
           IN  \/ line_parts.kanji = <<>>
               \/ line_parts.reading # <<>> /\ line_parts.meaning # <<>>)
        => C12_FirstLinePaintsWord

\* A first line onto which no gloss word was packed has been painted.
C12_NoGlossLinePainted ==
    (PaintedLineInBox
        /\ wrapped_compound_lines[li].kanji # <<>>
        /\ wrapped_compound_lines[li].reading # <<>>
        /\ wrapped_compound_lines[li].meaning = <<>>)
        => drawn # <<>>

(***************************************************************************)
(* The names main gives to the output, checked under SpecMain.             *)
(***************************************************************************)
\* The base name of the input file of the batch, without directory and
\* extension.
BatchBaseName == SplitExtRoot(Basename(input_files[fi]))

\* The label as the specification words it: what follows the first
\* underscore, in capitals, with hyphens for the other underscores; the
\* whole base name where there is no underscore.
StatedLabel(name) ==
    IF \E k \in 1..Len(name) : name[k] = "_"
    THEN LET first == CHOOSE k \in 1..Len(name) :
                         name[k] = "_" /\ \A m \in 1..(k - 1) : name[m] # "_"
         IN  [k \in 1..(Len(name) - first) |->
                 IF name[first + k] = "_" THEN "-" ELSE UpperChar(name[first + k])]
    ELSE name

\* The label of the code: the whole base name is put in capitals too.
CapitalLabel(name) ==
    IF \E k \in 1..Len(name) : name[k] = "_" THEN StatedLabel(name) ELSE Upper(name)

\* The directory and the files of the batch carry the given label.
NamedWith(label) ==
    /\ suffix = label
    /\ <<"J", "L", "P", "T", "-">> \o label \in dirs
    /\ \A k \in 1..Len(calls) :
          LET path == calls[k].output_path
              n == Len(label)
          IN  /\ Len(path) = 2 * n + 21
              /\ SubSeq(path, 1, n + 6) = <<"J", "L", "P", "T", "-">> \o label \o <<"/">>
              /\ SubSeq(path, n + 7, 2 * n + 12)
                     = <<"J", "L", "P", "T", "_">> \o label \o <<"_">>

\* C13 as stated: the output directory is "JLPT-" and the label, where the
\* label is the part of the base name after the first underscore, in
\* capitals and with hyphens for the remaining underscores, or the whole
\* base name where it has no underscore; the file names carry the same label.
C13_LabelAsStated == pc = "render" => NamedWith(StatedLabel(BatchBaseName))

\* C13, amended: the same, with the whole base name put in capitals where
\* it has no underscore.
C13_OutputLabel == pc = "render" => NamedWith(CapitalLabel(BatchBaseName))

C13_Witness ==
    /\ pc = "render"
    /\ input_files[fi] = PlainFile
    /\ suffix = <<"A", "B">>
    /\ Len(calls) >= 1

(***************************************************************************)
(* Mixed reading tokens, checked under SpecParse.                          *)
(***************************************************************************)
Count(s, c) == Cardinality({k \in 1..Len(s) : s[k] = c})

RECURSIVE Flatten(_)
Flatten(runs) == IF runs = <<>> THEN <<>> ELSE Head(runs) \o Flatten(Tail(runs))

\* The runs lie in the token from left to right, one after the other.
RECURSIVE RunsInOrder(_, _)
RunsInOrder(runs, token) ==
    \/ runs = <<>>
    \/ /\ Head(runs) # <<>>
       /\ \E p \in 1..(Len(token) - Len(Head(runs)) + 1) :
             /\ SubSeq(token, p, p + Len(Head(runs)) - 1) = Head(runs)
             /\ RunsInOrder(Tail(runs), Drop(token, p + Len(Head(runs)) - 1))

\* The readings the mixed token of the row added to the two families.
MixedHiragana ==
    IF kanji_data.hiragana_readings # <<>> /\ Head(kanji_data.hiragana_readings) = <<"HI">>
    THEN Tail(kanji_data.hiragana_readings) ELSE kanji_data.hiragana_readings

\* Each family holds runs of the token in their order of appearance, and
\* no letter of the other script.
C14_RunsByScript ==
    (pc # "start" /\ given.mixed # <<>>)
        => /\ RunsInOrder(MixedHiragana, given.mixed)
           /\ RunsInOrder(kanji_data.katakana_readings, given.mixed)
           /\ Count(Flatten(MixedHiragana), "KA") = 0
           /\ Count(Flatten(kanji_data.katakana_readings), "HA") = 0
           /\ Count(Flatten(MixedHiragana), "HA") = Count(given.mixed, "HA")
           /\ Count(Flatten(kanji_data.katakana_readings), "KA") = Count(given.mixed, "KA")

\* No character of the token is in both families.
C14_InOneFamily ==
    (pc # "start" /\ given.mixed # <<>>)
        => \A c \in MixedChars :
              Count(Flatten(MixedHiragana), c)
                  + Count(Flatten(kanji_data.katakana_readings), c)
                <= Count(given.mixed, c)

\* C14: a reading token of mixed script is split into runs per script, the
\* hiragana runs go to hiragana_readings and the katakana runs to
\* katakana_readings in their order of appearance, and no character of the
\* token ends up in both families.
C14_MixedSplit == C14_RunsByScript /\ C14_InOneFamily

(***************************************************************************)
(* The wrapped lines of the compounds, checked under SpecLayout.           *)
(***************************************************************************)
\* The positions of the lines that carry a word.
FirstLinePositions ==
    {k \in 1..Len(wrapped_compound_lines) : wrapped_compound_lines[k].kanji # <<>>}

NthFirstLine(j) ==
    CHOOSE k \in FirstLinePositions :
        Cardinality({m \in FirstLinePositions : m < k}) = j - 1

\* The lines from the j-th first line up to the next first line.
LinesOfCompound(j) ==
    SubSeq(wrapped_compound_lines, NthFirstLine(j),
           IF j = Cardinality(FirstLinePositions) THEN Len(wrapped_compound_lines)
           ELSE NthFirstLine(j + 1) - 1)

RECURSIVE GlossWords(_)
GlossWords(lines) ==
    IF lines = <<>> THEN <<>>
    ELSE SplitWords(Head(lines).meaning) \o GlossWords(Tail(lines))

\* C15: wrapping loses nothing. For every compound wrapped so far, at every
\* box width, there is exactly one first line, with the compound's word and
\* reading, after all lines of the compounds before it; the gloss words of
\* that line and of the continuation lines up to the next first line are the
\* whitespace-separated words of the compound's gloss, in their order.
C15_WrapLosesNothing ==
    (pc \in {"wrap", "paint", "save"})
        => /\ Cardinality(FirstLinePositions) = ci
           /\ wrapped_compound_lines # <<>> => 1 \in FirstLinePositions
           /\ \A k \in 1..Len(wrapped_compound_lines) :
                 k \notin FirstLinePositions
                     => wrapped_compound_lines[k].reading = <<>>
           /\ \A j \in 1..ci :
                 /\ wrapped_compound_lines[NthFirstLine(j)].kanji
                        = kanji_data.compounds[j].kanji
                 /\ wrapped_compound_lines[NthFirstLine(j)].reading
                        = kanji_data.compounds[j].reading
                 /\ GlossWords(LinesOfCompound(j))
                        = SplitWords(kanji_data.compounds[j].meaning)

\* Two compounds wrapped; the first has no gloss word on its first line and
\* two continuation lines, of which one holds a word wider than the box.
C15_Witness ==
    /\ pc = "wrap"
    /\ ci = 2
    /\ kanji_data.compounds = <<WideCompound, ShortCompound>>
    /\ wrapped_compound_lines[1].meaning = <<>>
    /\ NthFirstLine(2) >= 4
    /\ 10 * TextWidth(wrapped_compound_lines[2].meaning, FontSmall(image_size))
           > 9 * local.max_box_width

(***************************************************************************)
(* From the harvester's file to the parser, checked under SpecHarvest.     *)
(***************************************************************************)
AsParsed(c) == [kanji |-> c.word, reading |-> c.kana, meaning |-> c.translation]

RoundTrips(r, written) ==
    parse_csv_entry(written).compounds
        = [j \in 1..Len(r.compounds) |-> AsParsed(r.compounds[j])]

\* C16: for every scraped record, parse_csv_entry reads from the row the
\* harvester wrote for it as many compounds as were scraped, with the same
\* word, reading and gloss, in the same order.
C16_RoundTrip ==
    (pc \in {"save_n2", "saved"})
        => \A k \in 1..Len(results) :
              RoundTrips(results[k], disk[LevelFilename(level)][k])

\* The records whose translations hold no semicolon are read back as scraped.
C16_PlainRoundTrip ==
    (pc \in {"save_n2", "saved"})
        => \A k \in 1..Len(results) :
              (\A j \in 1..Len(results[k].compounds) :
                    Count(results[k].compounds[j].translation, ";") = 0)
                  => RoundTrips(results[k], disk[LevelFilename(level)][k])

(***************************************************************************)
(* The rectangle of the compound box, checked under SpecLayout.            *)
(***************************************************************************)
BoxDrawn == drawn # <<>> /\ drawn[1].op = "rectangle"

C17_BottomNotAboveTop == BoxDrawn => drawn[1].y1 >= drawn[1].y0

C17_RightNotLeftOfLeft == BoxDrawn => drawn[1].x1 >= drawn[1].x0

C17_BottomAboveMargin ==
    BoxDrawn => drawn[1].y1 <= image_size[2] - S(30, 1, image_size)

\* C17: for every entry and every canvas size the rectangle of the compound
\* box handed to the painter has its bottom edge not above its top edge, its
\* right edge not left of its left edge, and its bottom edge not below the
\* canvas height minus the bottom margin.
C17_BoxWellFormed ==
    C17_BottomNotAboveTop /\ C17_RightNotLeftOfLeft /\ C17_BottomAboveMargin

\* At the baseline size, with at most two readings of each family and up to
\* three compounds, the rectangle is well-formed.
C17_BaselineWellFormed ==
    (BoxDrawn /\ image_size = <<BASE_IMAGE_WIDTH, BASE_IMAGE_HEIGHT>>)
        => /\ drawn[1].y1 >= drawn[1].y0
           /\ drawn[1].x1 >= drawn[1].x0
           /\ drawn[1].y1 <= image_size[2] - S(30, 1, image_size)

====
